---- MODULE Spec2Model ----
(***************************************************************************)
(* Guide and Homestay entity schemas (Mongoose) and the create / update /  *)
(* read operations of the store facade that uses them.                     *)
(*                                                                         *)
(* An optional value is a sequence of length 0 (absent / undefined) or 1   *)
(* (present).  Trimmed text (name, bio, title, description) is a sequence  *)
(* of characters so that trimming is computed; other text is a string.     *)
(***************************************************************************)
EXTENDS Integers, Sequences, FiniteSets, TLC

VARIABLES guides, homestays, now, result

vars == <<guides, homestays, now, result>>

\* ------------------------------------------------------------------ bounds
\* documents the two collections hold together
MaxRecords == 1
\* last reading of the clock
MaxTime == 1

\* ------------------------------------------------------- optional values
Absent == <<>>
Some(v) == <<v>>
IsPresent(o) == Len(o) > 0
Val(o) == o[1]

\* ----------------------------------------------------------------- text
Text(n) == [i \in 1..n |-> "x"]
Padded(l, n, r) == [i \in 1..l |-> " "] \o Text(n) \o [i \in 1..r |-> " "]

RECURSIVE TrimStart(_)
TrimStart(s) == IF Len(s) > 0 /\ Head(s) = " " THEN TrimStart(Tail(s)) ELSE s

RECURSIVE TrimEnd(_)
TrimEnd(s) ==
    IF Len(s) > 0 /\ s[Len(s)] = " " THEN TrimEnd(SubSeq(s, 1, Len(s) - 1)) ELSE s

\* trim that leaves trailing spaces
TrimStartOnly(s) == TrimStart(s)

\* String schema option trim: true -- the setter runs when the value is set
Trim(s) == TrimEnd(TrimStart(s))
TrimOpt(o) == IF IsPresent(o) THEN Some(Trim(Val(o))) ELSE Absent

\* ------------------------------------------------- Mongoose schema types
\* default: applies when the value is undefined
WithDefault(o, d) == IF IsPresent(o) THEN o ELSE Some(d)
\* type: [String] -- an array path is never undefined, it is [] when not set
ArrayCast(o) == WithDefault(o, <<>>)
\* required on a String path: present and not the empty string
RequiredText(o) == IsPresent(o) /\ Val(o) # <<>>
RequiredString(o) == IsPresent(o) /\ Val(o) # ""
\* required on a Number or subdocument path: present
Required(o) == IsPresent(o)
\* min: an absent value passes, a present one must be >= m
MinOk(o, m) == IsPresent(o) => Val(o) >= m
\* maxlength: an absent value passes
MaxLengthOk(o, m) == IsPresent(o) => Len(Val(o)) <= m
\* enum: an absent value passes
EnumOk(o, values) == IsPresent(o) => Val(o) \in values

\* =================================================================== Guide
GuideAvailability == {"available", "busy", "unavailable"}
GuideNameMaxLength == 100
GuidePriceMin == 0
GuideDefaultState == "Jharkhand"
GuideDefaultAvailability == "available"

GuideInputFields ==
    {"name", "bio", "specializations", "languages", "experience", "location",
     "pricing", "certifications", "availability"}

\* locationSchema: state has default 'Jharkhand'
GuideLocationCast(o) ==
    IF IsPresent(o)
    THEN Some([district |-> Val(o).district,
               state |-> WithDefault(Val(o).state, GuideDefaultState)])
    ELSE Absent

GuideLocationErrors(o) ==
    IF ~IsPresent(o) THEN {"location"}
    ELSE {p \in {"location.district", "location.state"} :
            \/ p = "location.district" /\ ~RequiredString(Val(o).district)
            \/ p = "location.state" /\ ~RequiredString(Val(o).state)}

\* pricingSchema without min on halfDay
GuidePricingErrorsNoMin(o) ==
    IF ~IsPresent(o) THEN {"pricing"}
    ELSE {p \in {"pricing.halfDay", "pricing.fullDay"} :
            \/ p = "pricing.halfDay" /\ ~Required(Val(o).halfDay)
            \/ p = "pricing.fullDay"
                 /\ ~(Required(Val(o).fullDay) /\ MinOk(Val(o).fullDay, GuidePriceMin))}

\* pricingSchema: halfDay and fullDay required with min 0, the others free
GuidePricingErrors(o) ==
    IF ~IsPresent(o) THEN {"pricing"}
    ELSE {p \in {"pricing.halfDay", "pricing.fullDay"} :
            \/ p = "pricing.halfDay"
                 /\ ~(Required(Val(o).halfDay) /\ MinOk(Val(o).halfDay, GuidePriceMin))
            \/ p = "pricing.fullDay"
                 /\ ~(Required(Val(o).fullDay) /\ MinOk(Val(o).fullDay, GuidePriceMin))}

\* validator that accepts the empty array
NonEmptyArrayAny(o) == IsPresent(o)

\* validator: (v) => v.length > 0
NonEmptyArray(o) == IsPresent(o) /\ Len(Val(o)) > 0

\* the value the schema stores for one top-level path of the input
GuideCastField(f, o) ==
    CASE f \in {"name", "bio"} -> TrimOpt(o)
      [] f \in {"specializations", "languages", "certifications"} -> ArrayCast(o)
      [] f = "location" -> GuideLocationCast(o)
      [] f = "availability" -> WithDefault(o, GuideDefaultAvailability)
      [] OTHER -> o

\* new GuideModel(input): setters and defaults applied to every path
GuideCast(inp) == [f \in GuideInputFields |-> GuideCastField(f, inp[f])]

\* the validation errors (paths) of one top-level path of a document
GuideFieldErrors(f, o) ==
    CASE f = "name" ->
           IF RequiredText(o) /\ MaxLengthOk(o, GuideNameMaxLength) THEN {} ELSE {"name"}
      [] f = "bio" -> IF RequiredText(o) THEN {} ELSE {"bio"}
      [] f \in {"specializations", "languages"} -> IF NonEmptyArray(o) THEN {} ELSE {f}
      [] f = "experience" -> IF RequiredString(o) THEN {} ELSE {"experience"}
      [] f = "location" -> GuideLocationErrors(o)
      [] f = "pricing" -> GuidePricingErrors(o)
      [] f = "availability" -> IF EnumOk(o, GuideAvailability) THEN {} ELSE {"availability"}
      [] OTHER -> {}

GuideErrors(doc, fields) == UNION {GuideFieldErrors(f, doc[f]) : f \in fields}

\* timestamps that restamp createdAt on every write
GuideStampUpdateBoth(doc, t) == [doc EXCEPT !["updatedAt"] = t, !["createdAt"] = t]

\* timestamps: true -- createdAt and updatedAt are set when a document is
\* inserted, updatedAt on every later write; createdAt is immutable
GuideStampCreate(doc, id, t) ==
    doc @@ [k \in {"_id", "createdAt", "updatedAt"} |-> IF k = "_id" THEN id ELSE t]
GuideStampUpdate(doc, t) == [doc EXCEPT !["updatedAt"] = t]

\* UpdateGuideInput = Partial<...>: the paths an update supplies
GuideSupplied(upd) == {f \in GuideInputFields : IsPresent(upd[f])}

\* merge that puts availability back to its default unless it is supplied
GuideMergeResetting(old, upd) ==
    [k \in DOMAIN old |->
        IF k \in GuideSupplied(upd) THEN GuideCastField(k, upd[k])
        ELSE IF k = "availability" THEN GuideCastField(k, Absent)
        ELSE old[k]]

\* the document after the supplied paths are replaced
GuideMerge(old, upd) ==
    [k \in DOMAIN old |->
        IF k \in GuideSupplied(upd) THEN GuideCastField(k, upd[k]) ELSE old[k]]

\* GuideModel.findById on the collection coll
GuideFindById(coll, id) == IF id \in DOMAIN coll THEN Some(coll[id]) ELSE Absent

\* --------------------------------------------------------- Guide inputs
GuideBaseInput ==
    [name |-> Some(Text(1)), bio |-> Some(Text(2)),
     specializations |-> Some(<<"trekking">>), languages |-> Some(<<"Hindi">>),
     experience |-> Some("5 years"),
     location |-> Some([district |-> Some("Ranchi"), state |-> Absent]),
     pricing |-> Some([halfDay |-> Some(0), fullDay |-> Some(0),
                       multiDay |-> Absent, workshop |-> Absent]),
     certifications |-> Absent, availability |-> Absent]

GuideFullInput ==
    [name |-> Some(Padded(1, 1, 1)), bio |-> Some(Padded(0, 2, 2)),
     specializations |-> Some(<<"trekking", "wildlife">>), languages |-> Some(<<"Hindi">>),
     experience |-> Some("5 years"),
     location |-> Some([district |-> Some("Ranchi"), state |-> Some("Bihar")]),
     pricing |-> Some([halfDay |-> Some(1), fullDay |-> Some(2),
                       multiDay |-> Some(3), workshop |-> Some(4)]),
     certifications |-> Some(<<"first aid">>), availability |-> Some("busy")]

GuidePricingOf(h, f, m, w) ==
    Some([halfDay |-> h, fullDay |-> f, multiDay |-> m, workshop |-> w])

GuideWith(f, v) == [GuideBaseInput EXCEPT ![f] = v]

GuideNoUpdate == [f \in GuideInputFields |-> Absent]
GuideOnly(f, v) == [GuideNoUpdate EXCEPT ![f] = v]

\* inputs about the two required collections and the prices
GuideCreateInputs ==
    {GuideBaseInput, GuideFullInput,
     GuideWith("specializations", Absent),
     GuideWith("specializations", Some(<<>>)),
     GuideWith("languages", Absent),
     GuideWith("languages", Some(<<>>)),
     GuideWith("pricing", GuidePricingOf(Some(-1), Some(0), Absent, Absent)),
     GuideWith("pricing", GuidePricingOf(Some(0), Some(-1), Absent, Absent)),
     GuideWith("pricing", GuidePricingOf(Some(0), Some(0), Some(-1), Absent)),
     GuideWith("pricing", GuidePricingOf(Some(0), Some(0), Absent, Some(-1)))}

GuideUpdateInputs ==
    {GuideNoUpdate,
     GuideOnly("specializations", Some(<<>>)),
     GuideOnly("specializations", Some(<<"trekking", "wildlife">>)),
     GuideOnly("languages", Some(<<>>)),
     GuideOnly("languages", Some(<<"Hindi">>)),
     GuideOnly("pricing", GuidePricingOf(Some(-1), Some(0), Absent, Absent)),
     GuideOnly("pricing", GuidePricingOf(Some(0), Some(-1), Absent, Absent)),
     GuideOnly("pricing", GuidePricingOf(Some(0), Some(0), Absent, Absent))}

\* inputs about defaults and trimming: every optional path absent and supplied
GuideDefaultsInputs ==
    {GuideBaseInput, GuideFullInput,
     GuideWith("name", Some(Padded(1, 1, 1))),
     GuideWith("name", Some(Padded(1, 0, 1))),
     GuideWith("name", Some(Text(GuideNameMaxLength + 1))),
     GuideWith("bio", Some(Padded(2, 1, 0))),
     GuideWith("availability", Some("available")),
     GuideWith("availability", Some("unavailable")),
     GuideWith("availability", Some("retired")),
     GuideWith("location", Some([district |-> Some("Ranchi"), state |-> Some("Bihar")])),
     GuideWith("location", Some([district |-> Some("Ranchi"), state |-> Some("")])),
     GuideWith("certifications", Some(<<"first aid">>)),
     GuideWith("pricing", GuidePricingOf(Some(0), Some(0), Some(3), Absent))}

\* inputs about updates: a valid and an invalid create, every availability,
\* and an update with one valid and one invalid path
GuideLifecycleCreates ==
    {GuideBaseInput, GuideFullInput, GuideWith("name", Absent)}

GuideLifecycleUpdates ==
    {GuideNoUpdate,
     GuideOnly("availability", Some("available")),
     GuideOnly("availability", Some("busy")),
     GuideOnly("availability", Some("unavailable")),
     GuideOnly("name", Some(Padded(0, 1, 2))),
     [GuideNoUpdate EXCEPT !["availability"] = Some("retired"),
                           !["experience"] = Some("10 years")]}

\* ================================================================ Homestay
PropertyType == {"entire", "private", "shared"}
HomestayStatusNoPending == {"active", "inactive"}
HomestayStatus == {"active", "inactive", "pending"}
HomestayTitleMaxLength == 200
HomestayBasePriceMin == 100
HomestayGuestsMin == 1
HomestayBedroomsMin == 0
HomestayBedsMin == 1
HomestayBathroomsMin == 0
HomestayDefaultState == "Jharkhand"
HomestayDefaultPropertyType == "entire"
HomestayDefaultStatus == "active"

\* CreateHomestayInput = Omit<IHomestay, 'status' | 'createdAt' | 'updatedAt'>
HomestayCreateFields ==
    {"title", "description", "propertyType", "location", "pricing", "capacity",
     "amenities", "houseRules", "images"}
\* UpdateHomestayInput = Partial<Omit<IHomestay, 'createdAt' | 'updatedAt'>>
HomestayUpdateFields == HomestayCreateFields \cup {"status"}

\* locationSchema: state has default 'Jharkhand'
HomestayLocationCast(o) ==
    IF IsPresent(o)
    THEN Some([address |-> Val(o).address, district |-> Val(o).district,
               state |-> WithDefault(Val(o).state, HomestayDefaultState),
               coordinates |-> Val(o).coordinates])
    ELSE Absent

\* coordinatesSchema: lat and lng required once coordinates are given
CoordinatesErrors(o) ==
    IF ~IsPresent(o) THEN {}
    ELSE {p \in {"location.coordinates.lat", "location.coordinates.lng"} :
            \/ p = "location.coordinates.lat" /\ ~Required(Val(o).lat)
            \/ p = "location.coordinates.lng" /\ ~Required(Val(o).lng)}

HomestayLocationErrors(o) ==
    IF ~IsPresent(o) THEN {"location"}
    ELSE {p \in {"location.address", "location.district", "location.state"} :
            \/ p = "location.address" /\ ~RequiredString(Val(o).address)
            \/ p = "location.district" /\ ~RequiredString(Val(o).district)
            \/ p = "location.state" /\ ~RequiredString(Val(o).state)}
         \cup CoordinatesErrors(Val(o).coordinates)

\* pricingSchema with the bound one too low
HomestayPricingErrorsLowMin(o) ==
    IF ~IsPresent(o) THEN {"pricing"}
    ELSE IF Required(Val(o).basePrice)
              /\ MinOk(Val(o).basePrice, HomestayBasePriceMin - 1)
         THEN {} ELSE {"pricing.basePrice"}

\* pricingSchema: basePrice required with min 100, the fees free
HomestayPricingErrors(o) ==
    IF ~IsPresent(o) THEN {"pricing"}
    ELSE IF Required(Val(o).basePrice) /\ MinOk(Val(o).basePrice, HomestayBasePriceMin)
         THEN {} ELSE {"pricing.basePrice"}

\* capacitySchema with guests bounded like bedrooms
CapacityErrorsGuestsFromZero(o) ==
    IF ~IsPresent(o) THEN {"capacity"}
    ELSE {p \in {"capacity.guests", "capacity.bedrooms", "capacity.beds",
                 "capacity.bathrooms"} :
            \/ p = "capacity.guests"
                 /\ ~(Required(Val(o).guests) /\ MinOk(Val(o).guests, HomestayBedroomsMin))
            \/ p = "capacity.bedrooms"
                 /\ ~(Required(Val(o).bedrooms) /\ MinOk(Val(o).bedrooms, HomestayBedroomsMin))
            \/ p = "capacity.beds"
                 /\ ~(Required(Val(o).beds) /\ MinOk(Val(o).beds, HomestayBedsMin))
            \/ p = "capacity.bathrooms"
                 /\ ~(Required(Val(o).bathrooms)
                        /\ MinOk(Val(o).bathrooms, HomestayBathroomsMin))}

\* capacitySchema: four required numbers, each with its min
CapacityErrors(o) ==
    IF ~IsPresent(o) THEN {"capacity"}
    ELSE {p \in {"capacity.guests", "capacity.bedrooms", "capacity.beds",
                 "capacity.bathrooms"} :
            \/ p = "capacity.guests"
                 /\ ~(Required(Val(o).guests) /\ MinOk(Val(o).guests, HomestayGuestsMin))
            \/ p = "capacity.bedrooms"
                 /\ ~(Required(Val(o).bedrooms) /\ MinOk(Val(o).bedrooms, HomestayBedroomsMin))
            \/ p = "capacity.beds"
                 /\ ~(Required(Val(o).beds) /\ MinOk(Val(o).beds, HomestayBedsMin))
            \/ p = "capacity.bathrooms"
                 /\ ~(Required(Val(o).bathrooms)
                        /\ MinOk(Val(o).bathrooms, HomestayBathroomsMin))}

\* casting with the wrong propertyType default
HomestayCastFieldPrivate(f, o) ==
    CASE f \in {"title", "description"} -> TrimOpt(o)
      [] f = "propertyType" -> WithDefault(o, "private")
      [] f = "location" -> HomestayLocationCast(o)
      [] f \in {"amenities", "images"} -> WithDefault(o, <<>>)
      [] f = "houseRules" -> ArrayCast(o)
      [] f = "status" -> WithDefault(o, HomestayDefaultStatus)
      [] OTHER -> o

\* the value the schema stores for one top-level path of the input
HomestayCastField(f, o) ==
    CASE f \in {"title", "description"} -> TrimOpt(o)
      [] f = "propertyType" -> WithDefault(o, HomestayDefaultPropertyType)
      [] f = "location" -> HomestayLocationCast(o)
      [] f \in {"amenities", "images"} -> WithDefault(o, <<>>)
      [] f = "houseRules" -> ArrayCast(o)
      [] f = "status" -> WithDefault(o, HomestayDefaultStatus)
      [] OTHER -> o

\* new HomestayModel(input): a path the input lacks is undefined before defaults
HomestayCast(inp) ==
    [f \in HomestayUpdateFields |->
        HomestayCastField(f, IF f \in DOMAIN inp THEN inp[f] ELSE Absent)]

\* the validation errors (paths) of one top-level path of a document
HomestayFieldErrors(f, o) ==
    CASE f = "title" ->
           IF RequiredText(o) /\ MaxLengthOk(o, HomestayTitleMaxLength) THEN {} ELSE {"title"}
      [] f = "description" -> IF RequiredText(o) THEN {} ELSE {"description"}
      [] f = "propertyType" ->
           IF RequiredString(o) /\ EnumOk(o, PropertyType) THEN {} ELSE {"propertyType"}
      [] f = "location" -> HomestayLocationErrors(o)
      [] f = "pricing" -> HomestayPricingErrors(o)
      [] f = "capacity" -> CapacityErrors(o)
      [] f = "status" -> IF EnumOk(o, HomestayStatus) THEN {} ELSE {"status"}
      [] OTHER -> {}

HomestayErrors(doc, fields) == UNION {HomestayFieldErrors(f, doc[f]) : f \in fields}

\* timestamps: true -- Automatically manages createdAt and updatedAt
HomestayStampCreate(doc, id, t) ==
    doc @@ [k \in {"_id", "createdAt", "updatedAt"} |-> IF k = "_id" THEN id ELSE t]
HomestayStampUpdate(doc, t) == [doc EXCEPT !["updatedAt"] = t]

HomestaySupplied(upd) == {f \in HomestayUpdateFields : IsPresent(upd[f])}

HomestayMerge(old, upd) ==
    [k \in DOMAIN old |->
        IF k \in HomestaySupplied(upd) THEN HomestayCastField(k, upd[k]) ELSE old[k]]

\* HomestayModel.findById on the collection coll
HomestayFindById(coll, id) == IF id \in DOMAIN coll THEN Some(coll[id]) ELSE Absent

\* ------------------------------------------------------ Homestay inputs
HomestayLocationOf(a, d, s, c) ==
    Some([address |-> a, district |-> d, state |-> s, coordinates |-> c])
HomestayPricingOf(b, c, w) ==
    Some([basePrice |-> b, cleaningFee |-> c, weekendPrice |-> w])
CapacityOf(g, br, b, ba) ==
    Some([guests |-> g, bedrooms |-> br, beds |-> b, bathrooms |-> ba])

HomestayBaseInput ==
    [title |-> Some(Text(1)), description |-> Some(Text(2)),
     propertyType |-> Absent,
     location |-> HomestayLocationOf(Some("1 Main Road"), Some("Ranchi"), Absent, Absent),
     pricing |-> HomestayPricingOf(Some(100), Absent, Absent),
     capacity |-> CapacityOf(Some(1), Some(0), Some(1), Some(0)),
     amenities |-> Absent, houseRules |-> Absent, images |-> Absent]

HomestayFullInput ==
    [title |-> Some(Padded(1, 1, 1)), description |-> Some(Padded(0, 2, 2)),
     propertyType |-> Some("private"),
     location |-> HomestayLocationOf(Some("1 Main Road"), Some("Ranchi"), Some("Bihar"),
                                     Some([lat |-> Some(23), lng |-> Some(85)])),
     pricing |-> HomestayPricingOf(Some(101), Some(-1), Some(150)),
     capacity |-> CapacityOf(Some(2), Some(1), Some(2), Some(1)),
     amenities |-> Some(<<"wifi">>), houseRules |-> Some(<<"no smoking">>),
     images |-> Some(<<"a.jpg">>)]

HomestayWith(f, v) == [HomestayBaseInput EXCEPT ![f] = v]

HomestayNoUpdate == [f \in HomestayUpdateFields |-> Absent]
HomestayOnly(f, v) == [HomestayNoUpdate EXCEPT ![f] = v]

\* inputs about the price and capacity bounds: each boundary from both sides
HomestayCreateInputs ==
    {HomestayBaseInput, HomestayFullInput,
     HomestayWith("pricing", HomestayPricingOf(Some(99), Absent, Absent)),
     HomestayWith("pricing", HomestayPricingOf(Some(-100), Absent, Absent)),
     HomestayWith("capacity", CapacityOf(Some(0), Some(0), Some(1), Some(0))),
     HomestayWith("capacity", CapacityOf(Some(1), Some(-1), Some(1), Some(0))),
     HomestayWith("capacity", CapacityOf(Some(1), Some(0), Some(0), Some(0))),
     HomestayWith("capacity", CapacityOf(Some(1), Some(0), Some(1), Some(-1)))}

HomestayUpdateInputs ==
    {HomestayNoUpdate,
     HomestayOnly("pricing", HomestayPricingOf(Some(99), Absent, Absent)),
     HomestayOnly("pricing", HomestayPricingOf(Some(100), Absent, Absent)),
     HomestayOnly("capacity", CapacityOf(Some(0), Some(0), Some(1), Some(0))),
     HomestayOnly("capacity", CapacityOf(Some(1), Some(-1), Some(1), Some(0))),
     HomestayOnly("capacity", CapacityOf(Some(1), Some(0), Some(0), Some(0))),
     HomestayOnly("capacity", CapacityOf(Some(1), Some(0), Some(1), Some(-1))),
     HomestayOnly("capacity", CapacityOf(Some(1), Some(0), Some(1), Some(0)))}

\* inputs about defaults and trimming: every optional path absent and supplied
HomestayDefaultsInputs ==
    {HomestayBaseInput, HomestayFullInput,
     HomestayWith("title", Some(Padded(1, 1, 1))),
     HomestayWith("title", Some(Padded(1, 0, 0))),
     HomestayWith("title", Some(Text(HomestayTitleMaxLength + 1))),
     HomestayWith("description", Some(Padded(0, 1, 2))),
     HomestayWith("propertyType", Some("entire")),
     HomestayWith("propertyType", Some("shared")),
     HomestayWith("propertyType", Some("villa")),
     HomestayWith("location",
        HomestayLocationOf(Some("1 Main Road"), Some("Ranchi"), Some("Bihar"), Absent)),
     HomestayWith("location",
        HomestayLocationOf(Some("1 Main Road"), Some("Ranchi"), Absent,
                           Some([lat |-> Some(23), lng |-> Absent]))),
     HomestayWith("amenities", Some(<<"wifi">>)),
     HomestayWith("images", Some(<<"a.jpg">>)),
     HomestayWith("houseRules", Some(<<"no smoking">>))}

\* inputs about updates: a valid and an invalid create, every status, and an
\* update with one valid and one invalid path
HomestayLifecycleCreates ==
    {HomestayBaseInput, HomestayFullInput, HomestayWith("title", Absent)}

HomestayLifecycleUpdates ==
    {HomestayNoUpdate,
     HomestayOnly("status", Some("active")),
     HomestayOnly("status", Some("inactive")),
     HomestayOnly("status", Some("pending")),
     HomestayOnly("title", Some(Padded(0, 1, 2))),
     [HomestayNoUpdate EXCEPT !["status"] = Some("archived"),
                              !["amenities"] = Some(<<"parking">>)]}

\* ============================================================== operations
Init ==
    /\ guides = <<>>
    /\ homestays = <<>>
    /\ now = 0
    /\ result = [op |-> "none", ok |-> TRUE, id |-> 0, errors |-> {}]

\* the clock read by Date.now() moves on between operations
Tick ==
    /\ now < MaxTime
    /\ now' = now + 1
    /\ UNCHANGED <<guides, homestays, result>>

StoreHasRoom == Len(guides) + Len(homestays) < MaxRecords

\* create that saves without waiting for validation
CreateGuideUnvalidated(inp) ==
    LET doc == GuideCast(inp)
        errs == GuideErrors(doc, GuideInputFields)
        id == Len(guides) + 1
    IN  /\ StoreHasRoom
        /\ guides' = Append(guides, GuideStampCreate(doc, id, now))
        /\ result' = [op |-> "createGuide", ok |-> errs = {},
                      id |-> IF errs = {} THEN id ELSE 0, errors |-> errs]
        /\ UNCHANGED <<homestays, now>>

\* GuideModel.create(input)
CreateGuide(inp) ==
    LET doc == GuideCast(inp)
        errs == GuideErrors(doc, GuideInputFields)
        id == Len(guides) + 1
    IN  /\ errs = {} => StoreHasRoom
        /\ IF errs = {}
           THEN /\ result' = [op |-> "createGuide", ok |-> TRUE, id |-> id, errors |-> {}]
                /\ guides' = Append(guides, GuideStampCreate(doc, id, now))
           ELSE /\ result' = [op |-> "createGuide", ok |-> FALSE, id |-> 0, errors |-> errs]
                /\ guides' = guides
        /\ UNCHANGED <<homestays, now>>

\* update of the guide id with a partial input
UpdateGuide(id, upd) ==
    LET doc == GuideMerge(guides[id], upd)
        errs == GuideErrors(doc, GuideSupplied(upd))
    IN  /\ id \in DOMAIN guides
        /\ IF errs = {}
           THEN /\ result' = [op |-> "updateGuide", ok |-> TRUE, id |-> id, errors |-> {}]
                /\ guides' = [guides EXCEPT ![id] = GuideStampUpdate(doc, now)]
           ELSE /\ result' = [op |-> "updateGuide", ok |-> FALSE, id |-> id, errors |-> errs]
                /\ guides' = guides
        /\ UNCHANGED <<homestays, now>>

\* HomestayModel.create(input)
CreateHomestay(inp) ==
    LET doc == HomestayCast(inp)
        errs == HomestayErrors(doc, HomestayUpdateFields)
        id == Len(homestays) + 1
    IN  /\ errs = {} => StoreHasRoom
        /\ IF errs = {}
           THEN /\ result' = [op |-> "createHomestay", ok |-> TRUE, id |-> id, errors |-> {}]
                /\ homestays' = Append(homestays, HomestayStampCreate(doc, id, now))
           ELSE /\ result' = [op |-> "createHomestay", ok |-> FALSE, id |-> 0, errors |-> errs]
                /\ homestays' = homestays
        /\ UNCHANGED <<guides, now>>

\* update of the homestay id with a partial input
UpdateHomestay(id, upd) ==
    LET doc == HomestayMerge(homestays[id], upd)
        errs == HomestayErrors(doc, HomestaySupplied(upd))
    IN  /\ id \in DOMAIN homestays
        /\ IF errs = {}
           THEN /\ result' = [op |-> "updateHomestay", ok |-> TRUE, id |-> id, errors |-> {}]
                /\ homestays' = [homestays EXCEPT ![id] = HomestayStampUpdate(doc, now)]
           ELSE /\ result' = [op |-> "updateHomestay", ok |-> FALSE, id |-> id, errors |-> errs]
                /\ homestays' = homestays
        /\ UNCHANGED <<guides, now>>

\* guides only
NextGuide ==
    \/ Tick
    \/ \E inp \in GuideCreateInputs : CreateGuide(inp)
    \/ \E id \in 1..MaxRecords, upd \in GuideUpdateInputs : UpdateGuide(id, upd)

SpecGuide == Init /\ [][NextGuide]_vars

\* homestays only
NextHomestay ==
    \/ Tick
    \/ \E inp \in HomestayCreateInputs : CreateHomestay(inp)
    \/ \E id \in 1..MaxRecords, upd \in HomestayUpdateInputs : UpdateHomestay(id, upd)

SpecHomestay == Init /\ [][NextHomestay]_vars

\* creation of both entities
NextCreate ==
    \/ Tick
    \/ \E inp \in GuideDefaultsInputs : CreateGuide(inp)
    \/ \E inp \in HomestayDefaultsInputs : CreateHomestay(inp)

SpecCreate == Init /\ [][NextCreate]_vars

\* creation and update of both entities
NextLifecycle ==
    \/ Tick
    \/ \E inp \in GuideLifecycleCreates : CreateGuide(inp)
    \/ \E id \in 1..MaxRecords, upd \in GuideLifecycleUpdates : UpdateGuide(id, upd)
    \/ \E inp \in HomestayLifecycleCreates : CreateHomestay(inp)
    \/ \E id \in 1..MaxRecords, upd \in HomestayLifecycleUpdates : UpdateHomestay(id, upd)

SpecLifecycle == Init /\ [][NextLifecycle]_vars

\* ================================================================== claims

\* ------------------------------------------------------------------- C1
C1_Empty(o) == ~IsPresent(o) \/ Val(o) = <<>>

C1_CollectionsNonEmpty ==
    \A i \in DOMAIN guides :
        /\ Len(Val(guides[i].specializations)) >= 1
        /\ Len(Val(guides[i].languages)) >= 1

C1_EmptyRejected ==
    /\ \A inp \in GuideCreateInputs :
          /\ result'.op = "createGuide"
          /\ C1_Empty(inp.specializations) \/ C1_Empty(inp.languages)
          /\ CreateGuide(inp)
          => /\ ~result'.ok
             /\ guides' = guides
             /\ C1_Empty(inp.specializations) => "specializations" \in result'.errors
             /\ C1_Empty(inp.languages) => "languages" \in result'.errors
    /\ \A id \in DOMAIN guides, upd \in GuideUpdateInputs :
          /\ result'.op = "updateGuide"
          /\ result'.id = id
          /\ upd.specializations = Some(<<>>) \/ upd.languages = Some(<<>>)
          /\ UpdateGuide(id, upd)
          => /\ ~result'.ok
             /\ guides' = guides

\* C1: every stored Guide has at least one specialization and at least one
\* language after every step, and a create or update whose input would leave
\* either collection empty is rejected and stores nothing.
C1_GuideCollectionsNeverEmpty ==
    [][C1_EmptyRejected /\ C1_CollectionsNonEmpty']_vars

\* a stored guide, and an update of it to no specializations was just rejected
C1_Witness ==
    /\ Len(guides) >= 1
    /\ result.op = "updateGuide" /\ ~result.ok
    /\ result.errors = {"specializations"}
    /\ Len(Val(guides[result.id].specializations)) >= 1

\* ------------------------------------------------------------------- C2
C2_Negative(o) == IsPresent(o) /\ Val(o) < 0

C2_AnyNegative(inp, prices) ==
    /\ IsPresent(inp.pricing)
    /\ \E p \in prices : C2_Negative(Val(inp.pricing)[p])

C2_NoStoredNegative(prices) ==
    \A i \in DOMAIN guides, p \in prices : ~C2_Negative(Val(guides[i].pricing)[p])

\* the input is valid once its pricing is replaced by a valid one
C2_OtherwiseValid(inp) ==
    /\ IsPresent(inp.pricing)
    /\ IsPresent(Val(inp.pricing).halfDay) /\ IsPresent(Val(inp.pricing).fullDay)
    /\ GuideErrors(GuideCast([inp EXCEPT !["pricing"] = GuideBaseInput.pricing]),
                   GuideInputFields) = {}

\* C2 as stated: a create with a negative halfDay, fullDay, multiDay or
\* workshop price is rejected, and no stored Guide has a negative price.
C2_AnyNegativePriceRejected ==
    [][/\ \A inp \in GuideCreateInputs :
             /\ result'.op = "createGuide"
             /\ C2_AnyNegative(inp, {"halfDay", "fullDay", "multiDay", "workshop"})
             /\ CreateGuide(inp)
             => ~result'.ok
       /\ C2_NoStoredNegative({"halfDay", "fullDay", "multiDay", "workshop"})']_vars

\* C2 amended: a create with a negative halfDay or fullDay is rejected with an
\* error on that price, and no stored Guide has a negative halfDay or fullDay;
\* multiDay and workshop are not range-checked: an otherwise valid create is
\* accepted exactly when halfDay and fullDay are both >= 0.
C2_RequiredPricesNonNegative ==
    [][/\ \A inp \in GuideCreateInputs :
             /\ result'.op = "createGuide"
             /\ CreateGuide(inp)
             => /\ C2_AnyNegative(inp, {"halfDay"}) => "pricing.halfDay" \in result'.errors
                /\ C2_AnyNegative(inp, {"fullDay"}) => "pricing.fullDay" \in result'.errors
                /\ C2_OtherwiseValid(inp)
                     => (result'.ok <=> ~C2_AnyNegative(inp, {"halfDay", "fullDay"}))
       /\ C2_NoStoredNegative({"halfDay", "fullDay"})']_vars

\* a guide with a negative multiDay price is stored, and a create with a
\* negative halfDay was just rejected
C2_Witness ==
    /\ \E i \in DOMAIN guides : Val(guides[i].pricing).multiDay = Some(-1)
    /\ result.op = "createGuide" /\ ~result.ok
    /\ result.errors = {"pricing.halfDay"}

\* ------------------------------------------------------------------- C3
C3_BasePrice(inp) == Val(Val(inp.pricing).basePrice)

\* the input is valid once its pricing is replaced by a valid one
C3_OtherwiseValid(inp) ==
    /\ IsPresent(inp.pricing)
    /\ IsPresent(Val(inp.pricing).basePrice)
    /\ HomestayErrors(HomestayCast([inp EXCEPT !["pricing"] = HomestayBaseInput.pricing]),
                      HomestayUpdateFields) = {}

C3_StoredBasePrices ==
    \A i \in DOMAIN homestays : Val(Val(homestays[i].pricing).basePrice) >= 100

\* C3: an otherwise valid Homestay create succeeds exactly when basePrice >= 100
\* (99 is rejected, 100 accepted), and every stored Homestay has
\* basePrice >= 100 after every create and update.
C3_BasePriceAtLeast100 ==
    [][/\ \A inp \in HomestayCreateInputs :
             /\ result'.op = "createHomestay"
             /\ C3_OtherwiseValid(inp)
             /\ CreateHomestay(inp)
             => /\ result'.ok <=> C3_BasePrice(inp) >= 100
                /\ C3_BasePrice(inp) = 99 => result'.errors = {"pricing.basePrice"}
       /\ C3_StoredBasePrices']_vars

\* a homestay at the boundary price 100 is stored, and an update of it to 99
\* was just rejected
C3_Witness ==
    /\ Len(homestays) >= 1
    /\ result.op = "updateHomestay" /\ ~result.ok
    /\ result.errors = {"pricing.basePrice"}
    /\ Val(homestays[result.id].pricing).basePrice = Some(100)

\* ------------------------------------------------------------------- C4
C4_AllPresent(c) ==
    IsPresent(c.guests) /\ IsPresent(c.bedrooms) /\ IsPresent(c.beds) /\ IsPresent(c.bathrooms)

C4_InBounds(c) ==
    /\ Val(c.guests) >= 1
    /\ Val(c.beds) >= 1
    /\ Val(c.bedrooms) >= 0
    /\ Val(c.bathrooms) >= 0

\* the input is valid once its capacity is replaced by a valid one
C4_OtherwiseValid(inp) ==
    /\ IsPresent(inp.capacity)
    /\ C4_AllPresent(Val(inp.capacity))
    /\ HomestayErrors(HomestayCast([inp EXCEPT !["capacity"] = HomestayBaseInput.capacity]),
                      HomestayUpdateFields) = {}

C4_StoredCapacities ==
    \A i \in DOMAIN homestays : C4_InBounds(Val(homestays[i].capacity))

\* C4: an otherwise valid Homestay create is rejected when guests < 1, beds < 1,
\* bedrooms < 0 or bathrooms < 0 and accepted otherwise, so at guests = 1,
\* beds = 1, bedrooms = 0, bathrooms = 0; every stored Homestay is within the
\* four bounds after every create and update.
C4_CapacityBounds ==
    [][/\ \A inp \in HomestayCreateInputs :
             /\ result'.op = "createHomestay"
             /\ C4_OtherwiseValid(inp)
             /\ CreateHomestay(inp)
             => (result'.ok <=> C4_InBounds(Val(inp.capacity)))
       /\ C4_StoredCapacities']_vars

\* a homestay at the four boundaries is stored, and a create with guests = 0
\* was just rejected
C4_Witness ==
    /\ \E i \in DOMAIN homestays :
          homestays[i].capacity = CapacityOf(Some(1), Some(0), Some(1), Some(0))
    /\ result.op = "createHomestay" /\ ~result.ok
    /\ result.errors = {"capacity.guests"}

\* ------------------------------------------------------------------- C5
C5_OrDefault(o, d) == IF IsPresent(o) THEN o ELSE Some(d)

C5_GuideDefaults(inp, d) ==
    /\ d.availability = C5_OrDefault(inp.availability, "available")
    /\ Val(d.location).state = C5_OrDefault(Val(inp.location).state, "Jharkhand")

C5_HomestayDefaults(inp, d) ==
    /\ d.propertyType = C5_OrDefault(inp.propertyType, "entire")
    /\ d.status = Some("active")
    /\ d.amenities = C5_OrDefault(inp.amenities, <<>>)
    /\ d.images = C5_OrDefault(inp.images, <<>>)
    /\ Val(d.location).state = C5_OrDefault(Val(inp.location).state, "Jharkhand")

\* C5: after a successful create, each optional path the input lacks holds its
\* default (Guide availability "available", location.state "Jharkhand";
\* Homestay propertyType "entire", status "active", amenities and images empty,
\* location.state "Jharkhand") and each one the input supplies holds the
\* supplied value.
C5_DefaultsOnCreate ==
    [][/\ \A inp \in GuideDefaultsInputs :
             /\ result'.op = "createGuide" /\ result'.ok
             /\ CreateGuide(inp)
             => C5_GuideDefaults(inp, guides'[result'.id])
       /\ \A inp \in HomestayDefaultsInputs :
             /\ result'.op = "createHomestay" /\ result'.ok
             /\ CreateHomestay(inp)
             => C5_HomestayDefaults(inp, homestays'[result'.id])]_vars

\* a homestay created from an input without optional paths holds every default
C5_Witness ==
    /\ result.op = "createHomestay" /\ result.ok
    /\ LET d == homestays[result.id]
       IN  /\ d.propertyType = Some("entire")
           /\ d.status = Some("active")
           /\ d.amenities = Some(<<>>)
           /\ d.images = Some(<<>>)
           /\ Val(d.location).state = Some("Jharkhand")

\* ------------------------------------------------------------------- C6
C6_Kept(old, new) ==
    \A i \in DOMAIN old :
        /\ i \in DOMAIN new
        /\ new[i].createdAt = old[i].createdAt
        /\ new[i].updatedAt >= old[i].updatedAt
        /\ new[i].updatedAt >= new[i].createdAt

\* C6: no step changes the createdAt of a stored Guide or Homestay, and every
\* step leaves its updatedAt later than or equal to the previous updatedAt and
\* to createdAt.
C6_TimestampsMonotone ==
    [][C6_Kept(guides, guides') /\ C6_Kept(homestays, homestays')]_vars

\* a guide whose last successful update came later than its creation
C6_Witness ==
    /\ result.op = "updateGuide" /\ result.ok
    /\ guides[result.id].updatedAt > guides[result.id].createdAt

\* ------------------------------------------------------------------- C7
\* C7: a step that ends in a rejected create or update leaves both collections
\* exactly as they were, updatedAt included.
C7_NoPartialWrites ==
    [][~result'.ok => guides' = guides /\ homestays' = homestays]_vars

\* an update with a valid experience and an invalid availability was just
\* rejected at a later time, and the guide has the experience and the
\* updatedAt it was created with
C7_Witness ==
    /\ result.op = "updateGuide" /\ ~result.ok
    /\ result.errors = {"availability"}
    /\ guides[result.id].experience = Some("5 years")
    /\ guides[result.id].updatedAt = guides[result.id].createdAt
    /\ now > guides[result.id].updatedAt

\* ------------------------------------------------------------------- C8
C8_System == {"_id", "createdAt"}

C8_OthersKept(old, new, id) ==
    /\ DOMAIN new = DOMAIN old
    /\ \A i \in DOMAIN old : i # id => new[i] = old[i]

\* the supplied values of the update inputs are valid, path by path
C8_GuideSuppliedValid(upd) ==
    /\ IsPresent(upd.availability)
         => Val(upd.availability) \in {"available", "busy", "unavailable"}
    /\ IsPresent(upd.name) => \E k \in DOMAIN Val(upd.name) : Val(upd.name)[k] # " "

C8_HomestaySuppliedValid(upd) ==
    /\ IsPresent(upd.status) => Val(upd.status) \in {"active", "inactive", "pending"}
    /\ IsPresent(upd.title) => \E k \in DOMAIN Val(upd.title) : Val(upd.title)[k] # " "

C9_StoredInEnum ==
    /\ \A i \in DOMAIN homestays :
          Val(homestays[i].status) \in {"active", "inactive", "pending"}
    /\ \A i \in DOMAIN guides :
          Val(guides[i].availability) \in {"available", "busy", "unavailable"}

\* C9: an update that supplies only a status of the enum succeeds in one step
\* whatever the stored status is and stores it, likewise for a Guide's
\* availability, and every stored status and availability is in its enum.
C9_StatusUnconstrained ==
    [][/\ \A id \in DOMAIN homestays, t \in {"active", "inactive", "pending"} :
             /\ result'.op = "updateHomestay"
             /\ result'.id = id
             /\ UpdateHomestay(id, HomestayOnly("status", Some(t)))
             => result'.ok /\ homestays'[id].status = Some(t)
       /\ \A id \in DOMAIN guides, t \in {"available", "busy", "unavailable"} :
             /\ result'.op = "updateGuide"
             /\ result'.id = id
             /\ UpdateGuide(id, GuideOnly("availability", Some(t)))
             => result'.ok /\ guides'[id].availability = Some(t)
       /\ C9_StoredInEnum']_vars

\* a homestay, created active, whose status an update set to pending
C9_Witness ==
    /\ result.op = "updateHomestay" /\ result.ok
    /\ homestays[result.id].status = Some("pending")

\* ------------------------------------------------------------------ C10
\* t is s without its leading and trailing spaces
C10_IsTrimOf(t, s) ==
    /\ t # <<>> => t[1] # " " /\ t[Len(t)] # " "
    /\ \E i \in 0..Len(s) :
          /\ i + Len(t) <= Len(s)
          /\ SubSeq(s, i + 1, i + Len(t)) = t
          /\ \A k \in 1..Len(s) : (k <= i \/ k > i + Len(t)) => s[k] = " "

C10_Array(o) == IF IsPresent(o) THEN o ELSE Some(<<>>)

C10_GuideRead(inp, r) ==
    /\ IsPresent(r)
    /\ LET d == Val(r)
       IN  /\ C10_IsTrimOf(Val(d.name), Val(inp.name))
           /\ C10_IsTrimOf(Val(d.bio), Val(inp.bio))
           /\ d.specializations = inp.specializations
           /\ d.languages = inp.languages
           /\ d.experience = inp.experience
           /\ Val(d.location).district = Val(inp.location).district
           /\ Val(d.location).state
                = (IF IsPresent(Val(inp.location).state)
                   THEN Val(inp.location).state ELSE Some("Jharkhand"))
           /\ d.pricing = inp.pricing
           /\ d.certifications = C10_Array(inp.certifications)
           /\ d.availability
                = (IF IsPresent(inp.availability) THEN inp.availability
                   ELSE Some("available"))

C10_HomestayRead(inp, r) ==
    /\ IsPresent(r)
    /\ LET d == Val(r)
       IN  /\ C10_IsTrimOf(Val(d.title), Val(inp.title))
           /\ C10_IsTrimOf(Val(d.description), Val(inp.description))
           /\ d.propertyType
                = (IF IsPresent(inp.propertyType) THEN inp.propertyType
                   ELSE Some("entire"))
           /\ Val(d.location).address = Val(inp.location).address
           /\ Val(d.location).district = Val(inp.location).district
           /\ Val(d.location).coordinates = Val(inp.location).coordinates
           /\ Val(d.location).state
                = (IF IsPresent(Val(inp.location).state)
                   THEN Val(inp.location).state ELSE Some("Jharkhand"))
           /\ d.pricing = inp.pricing
           /\ d.capacity = inp.capacity
           /\ d.amenities = C10_Array(inp.amenities)
           /\ d.houseRules = C10_Array(inp.houseRules)
           /\ d.images = C10_Array(inp.images)
           /\ d.status = Some("active")

\* C10: the record read back by the identifier a successful create returned
\* holds the input's values: name, bio, title and description without their
\* leading and trailing spaces, a default (or the empty array) for each path
\* the input lacks, and every other supplied value as it was supplied.
C10_CreateReadRoundTrip ==
    [][/\ \A inp \in GuideDefaultsInputs :
             /\ result'.op = "createGuide" /\ result'.ok
             /\ CreateGuide(inp)
             => C10_GuideRead(inp, GuideFindById(guides', result'.id))
       /\ \A inp \in HomestayDefaultsInputs :
             /\ result'.op = "createHomestay" /\ result'.ok
             /\ CreateHomestay(inp)
             => C10_HomestayRead(inp, HomestayFindById(homestays', result'.id))]_vars

\* the guide just created from the input with padded name and bio reads back
\* trimmed, with the supplied state, certifications and availability
C10_Witness ==
    /\ result.op = "createGuide" /\ result.ok
    /\ LET r == GuideFindById(guides, result.id)
       IN  /\ IsPresent(r)
           /\ Val(r).name = Some(Text(1))
           /\ Val(r).bio = Some(Text(2))
           /\ Val(Val(r).location).state = Some("Bihar")
           /\ Val(r).certifications = Some(<<"first aid">>)
           /\ Val(r).availability = Some("busy")
====
